---- MODULE Spec2Model ----
(***************************************************************************)
(* A model of MessageHeaders::MessageHeaders (src/src/MessageHeaders.cpp): *)
(* the ordered header store, the raw-message parser and their public       *)
(* operations.                                                             *)
(*                                                                         *)
(* A std::string is a sequence of byte values.  A C++ offset i (0-based)   *)
(* addresses element i + 1 of the sequence.  A size_t difference is kept   *)
(* as a signed integer: a negative d stands for the wrapped value 2^64 + d,*)
(* which is larger than the length of every string of the model.           *)
(***************************************************************************)
EXTENDS Integers, Sequences, FiniteSets, TLC

VARIABLES
    headers,          \* Impl::headers: the entries, each [name, value, id]
    lineLengthLimit,  \* Impl::lineLengthLimit
    valid,            \* Impl::valid
    nextId,           \* ghost: the insertion number the next new entry gets
    calls,            \* ghost: how many API calls were made
    call,             \* history: the last API call and its arguments
    before,           \* history: Impl::headers when the last call began
    ret               \* history: what the last call returned

vars == <<headers, lineLengthLimit, valid, nextId, calls, call, before, ret>>

----------------------------------------------------------------------------
(* Bytes and strings                                                       *)

SP == 32
HT == 9
CR == 13
LF == 10
COLON == 58
COMMA == 44
MinNameChar == 33
MaxNameChar == 126
NPOS == -1

WSP == {SP, HT}
CRLF == <<CR, LF>>

Min(S) == CHOOSE x \in S : \A y \in S : x <= y
Max(S) == CHOOSE x \in S : \A y \in S : y <= x

\* s.find(pat, pos)
Find(s, pat, pos) ==
    LET hits == {i \in pos..(Len(s) - Len(pat)) :
                    \A k \in 1..Len(pat) : s[i + k] = pat[k]}
    IN IF hits = {} THEN NPOS ELSE Min(hits)

\* s.find_first_not_of(WSP, pos)
FindFirstNotOfWSP(s, pos) ==
    LET hits == {i \in pos..(Len(s) - 1) : s[i + 1] \notin WSP}
    IN IF hits = {} THEN NPOS ELSE Min(hits)

\* s.find_last_not_of(WSP)
FindLastNotOfWSP(s) ==
    LET hits == {i \in 0..(Len(s) - 1) : s[i + 1] \notin WSP}
    IN IF hits = {} THEN NPOS ELSE Max(hits)

\* s.substr(pos, count), pos <= s.length(); a negative count is a wrapped one
Substr(s, pos, count) ==
    LET rest == Len(s) - pos
        n == IF count < 0 \/ count > rest THEN rest ELSE count
    IN SubSeq(s, pos + 1, pos + n)

KeepMargins(s) == s

StripMarginWhitespace(s) ==
    LET marginLeft == FindFirstNotOfWSP(s, 0)
        marginRight == FindLastNotOfWSP(s)
    IN IF marginLeft = NPOS
       THEN <<>>
       ELSE Substr(s, marginLeft, marginRight - marginLeft + 1)

\* tolower() in the "C" locale
ToLower(c) == IF c >= 65 /\ c <= 90 THEN c + 32 ELSE c

----------------------------------------------------------------------------
(* HeaderName::operator==                                                  *)

RECURSIVE NameEqFrom(_, _, _)
NameEqFrom(a, b, i) ==
    IF i >= Len(a) THEN TRUE
    ELSE IF ToLower(a[i + 1]) # ToLower(b[i + 1]) THEN FALSE
    ELSE NameEqFrom(a, b, i + 1)

NameEqExact(a, b) == a = b

NameEq(a, b) ==
    IF Len(a) # Len(b) THEN FALSE ELSE NameEqFrom(a, b, 0)

----------------------------------------------------------------------------
(* The store operations, as functions of Impl::headers                     *)

Header(name, value, id) == [name |-> name, value |-> value, id |-> id]

\* std::vector::erase at 1-based position i
Erase(hs, i) == SubSeq(hs, 1, i - 1) \o SubSeq(hs, i + 1, Len(hs))

\* GetAll(): the (name, value) pairs, in store order
GetAll(hs) == [i \in 1..Len(hs) |-> <<hs[i].name, hs[i].value>>]

RECURSIVE HasHeaderFrom(_, _, _)
HasHeaderFrom(hs, name, i) ==
    IF i > Len(hs) THEN FALSE
    ELSE IF NameEq(hs[i].name, name) THEN TRUE
    ELSE HasHeaderFrom(hs, name, i + 1)

HasHeaderOp(hs, name) == HasHeaderFrom(hs, name, 1)

RECURSIVE GetHeaderValueFrom(_, _, _)
GetHeaderValueFrom(hs, name, i) ==
    IF i > Len(hs) THEN <<>>
    ELSE IF NameEq(hs[i].name, name) THEN hs[i].value
    ELSE GetHeaderValueFrom(hs, name, i + 1)

GetHeaderValueOp(hs, name) == GetHeaderValueFrom(hs, name, 1)

RECURSIVE GetHeaderMultiValuesFrom(_, _, _, _)
GetHeaderMultiValuesFrom(hs, name, i, headerValues) ==
    IF i > Len(hs) THEN headerValues
    ELSE IF NameEq(hs[i].name, name)
         THEN GetHeaderMultiValuesFrom(hs, name, i + 1, Append(headerValues, hs[i].value))
    ELSE GetHeaderMultiValuesFrom(hs, name, i + 1, headerValues)

GetHeaderMultiValuesOp(hs, name) == GetHeaderMultiValuesFrom(hs, name, 1, <<>>)

\* StringUtils::Split(s, ","): no token for the empty string, otherwise the
\* pieces between the commas, whitespace kept
RECURSIVE SplitFrom(_, _, _, _)
SplitFrom(s, i, token, tokens) ==
    IF i > Len(s) THEN Append(tokens, token)
    ELSE IF s[i] = COMMA THEN SplitFrom(s, i + 1, <<>>, Append(tokens, token))
    ELSE SplitFrom(s, i + 1, Append(token, s[i]), tokens)

Split(s) == IF s = <<>> THEN <<>> ELSE SplitFrom(s, 1, <<>>, <<>>)

RECURSIVE GetHeaderTokensFrom(_, _, _, _)
GetHeaderTokensFrom(hs, name, i, headerTokens) ==
    IF i > Len(hs) THEN headerTokens
    ELSE IF NameEq(hs[i].name, name)
         THEN GetHeaderTokensFrom(hs, name, i + 1, headerTokens \o Split(hs[i].value))
    ELSE GetHeaderTokensFrom(hs, name, i + 1, headerTokens)

GetHeaderTokensFirstOnly(hs, name) == Split(GetHeaderValueOp(hs, name))

GetHeaderTokensOp(hs, name) == GetHeaderTokensFrom(hs, name, 1, <<>>)

\* the loop of SetHeader(name, value): header is position i
RECURSIVE SetHeaderLoop(_, _, _, _, _)
SetHeaderLoop(hs, i, name, value, haveSetValues) ==
    IF i > Len(hs) THEN [headers |-> hs, haveSetValues |-> haveSetValues]
    ELSE IF NameEq(hs[i].name, name)
         THEN IF haveSetValues
              THEN SetHeaderLoop(Erase(hs, i), i, name, value, haveSetValues)
              ELSE SetHeaderLoop([hs EXCEPT ![i].value = value], i + 1, name, value, TRUE)
    ELSE SetHeaderLoop(hs, i + 1, name, value, haveSetValues)

AddHeaderFront(hs, name, value, id) == <<Header(name, value, id)>> \o hs

\* AddHeader(name, value)
AddHeaderOp(hs, name, value, id) == Append(hs, Header(name, value, id))

SetHeaderKeepLater(hs, name, value, id) ==
    IF \E i \in 1..Len(hs) : NameEq(hs[i].name, name)
    THEN LET f == Min({i \in 1..Len(hs) : NameEq(hs[i].name, name)})
         IN [hs EXCEPT ![f].value = value]
    ELSE Append(hs, Header(name, value, id))

\* SetHeader(name, value)
SetHeaderOp(hs, name, value, id) ==
    LET r == SetHeaderLoop(hs, 1, name, value, FALSE)
    IN IF ~r.haveSetValues
       THEN Append(r.headers, Header(name, value, id))
       ELSE r.headers

\* the composite value built by the oneLine branches
RECURSIVE CompositeValue(_, _, _, _)
CompositeValue(values, i, isFirstValue, compositeValue) ==
    IF i > Len(values) THEN compositeValue
    ELSE IF isFirstValue
         THEN CompositeValue(values, i + 1, FALSE, compositeValue \o values[i])
    ELSE CompositeValue(values, i + 1, FALSE, (compositeValue \o <<COMMA>>) \o values[i])

\* the loop of the branch oneLine = false of SetHeader(name, values, oneLine)
RECURSIVE SetHeaderEach(_, _, _, _, _, _)
SetHeaderEach(hs, name, values, i, isFirstValue, id) ==
    IF i > Len(values) THEN hs
    ELSE IF isFirstValue
         THEN SetHeaderEach(SetHeaderOp(hs, name, values[i], id), name, values, i + 1,
                            FALSE, id + 1)
    ELSE SetHeaderEach(AddHeaderOp(hs, name, values[i], id), name, values, i + 1,
                       FALSE, id + 1)

SetHeaderValuesClearsOnEmpty(hs, name, values, oneLine, id) ==
    IF values = <<>> THEN SelectSeq(hs, LAMBDA h : ~NameEq(h.name, name))
    ELSE IF oneLine
    THEN SetHeaderOp(hs, name, CompositeValue(values, 1, TRUE, <<>>), id)
    ELSE SetHeaderEach(hs, name, values, 1, TRUE, id)

\* SetHeader(name, values, oneLine)
SetHeaderValuesOp(hs, name, values, oneLine, id) ==
    IF values = <<>> THEN hs
    ELSE IF oneLine
    THEN SetHeaderOp(hs, name, CompositeValue(values, 1, TRUE, <<>>), id)
    ELSE SetHeaderEach(hs, name, values, 1, TRUE, id)

\* the loop of the branch oneLine = false of AddHeader(name, values, oneLine)
RECURSIVE AddHeaderEach(_, _, _, _, _)
AddHeaderEach(hs, name, values, i, id) ==
    IF i > Len(values) THEN hs
    ELSE AddHeaderEach(AddHeaderOp(hs, name, values[i], id), name, values, i + 1, id + 1)

AddHeaderValuesSetsFirst(hs, name, values, oneLine, id) ==
    SetHeaderValuesOp(hs, name, values, oneLine, id)

\* AddHeader(name, values, oneLine)
AddHeaderValuesOp(hs, name, values, oneLine, id) ==
    IF values = <<>> THEN hs
    ELSE IF oneLine
    THEN AddHeaderOp(hs, name, CompositeValue(values, 1, TRUE, <<>>), id)
    ELSE AddHeaderEach(hs, name, values, 1, id)

RECURSIVE RemoveHeaderLoop(_, _, _)
RemoveHeaderLoop(hs, i, headerName) ==
    IF i > Len(hs) THEN hs
    ELSE IF NameEq(hs[i].name, headerName)
         THEN RemoveHeaderLoop(Erase(hs, i), i, headerName)
    ELSE RemoveHeaderLoop(hs, i + 1, headerName)

RemoveHeaderFirstOnly(hs, headerName) ==
    IF \E i \in 1..Len(hs) : NameEq(hs[i].name, headerName)
    THEN Erase(hs, Min({i \in 1..Len(hs) : NameEq(hs[i].name, headerName)}))
    ELSE hs

\* RemoveHeader(headerName)
RemoveHeaderOp(hs, headerName) == RemoveHeaderLoop(hs, 1, headerName)

----------------------------------------------------------------------------
(* ParseRawMessage(rawMessage, bodyOffset)                                 *)

Complete == "Complete"
Incomplete == "Incomplete"
Error == "Error"

ParseResult(state, bodyOffset, hs, v, id) ==
    [state |-> state, bodyOffset |-> bodyOffset, headers |-> hs, valid |-> v,
     nextId |-> id]

\* return State::Error, after impl_->valid = false; bodyOffset was set to 0 on entry
ParseError(hs, id) == ParseResult(Error, 0, hs, FALSE, id)

UnterminatedTooLongNever(rawMessage, offset, limit) == FALSE

\* lines 258-266: the unterminated rest of the buffer does not fit the limit
UnterminatedTooLong(rawMessage, offset, limit) ==
    /\ limit > 0
    /\ (Len(rawMessage) - offset) + 2 > limit

LineTooLongOffByOne(lineTerminator, offset, limit) ==
    /\ limit > 0
    /\ lineTerminator - offset + Len(CRLF) >= limit

\* lines 270-277: the terminated line, CRLF included, does not fit the limit
LineTooLong(lineTerminator, offset, limit) ==
    /\ limit > 0
    /\ lineTerminator - offset + Len(CRLF) > limit

NameCharsAlwaysValid(name) == TRUE

NameCharsValidFromSpace(name) ==
    \A k \in 1..Len(name) : ~(name[k] < SP \/ name[k] > MaxNameChar)

\* lines 294-300: every byte of the name is in 33..126
NameCharsValid(name) ==
    \A k \in 1..Len(name) : ~(name[k] < MinNameChar \/ name[k] > MaxNameChar)

IsContinuationAnyLength(rawMessage, nextLineStart, nextLineLength) ==
    rawMessage[nextLineStart + 1] \in WSP

\* lines 324-325: the next line is unfolded into the value
IsContinuation(rawMessage, nextLineStart, nextLineLength) ==
    /\ nextLineLength > 2
    /\ rawMessage[nextLineStart + 1] \in WSP

\* lines 306-339: the look-ahead loop; offset and value are the loop's variables
RECURSIVE Unfold(_, _, _, _)
Unfold(rawMessage, lineTerminator, offset, value) ==
    LET nextLineStart == lineTerminator + Len(CRLF)
        nextLineTerminator == Find(rawMessage, CRLF, nextLineStart)
        nextLineLength == nextLineTerminator - nextLineStart
    IN IF nextLineTerminator = NPOS
       THEN [incomplete |-> TRUE, offset |-> offset, value |-> value]
       ELSE IF IsContinuation(rawMessage, nextLineStart, nextLineLength)
       THEN LET firstNonWhiteSpaceInNextLine ==
                    FindFirstNotOfWSP(rawMessage, nextLineStart)
                rest == nextLineLength - (firstNonWhiteSpaceInNextLine - nextLineStart)
            IN Unfold(rawMessage, nextLineTerminator, nextLineTerminator + 2,
                      (value \o <<SP>>)
                          \o Substr(rawMessage, firstNonWhiteSpaceInNextLine, rest))
       ELSE [incomplete |-> FALSE, offset |-> offset, value |-> value]

ParseEndAlwaysComplete(offset, hs, v, id) == ParseResult(Complete, offset, hs, v, id)

\* lines 345-350: after the while loop
ParseEnd(offset, hs, v, id) ==
    IF offset = 0
    THEN ParseResult(Incomplete, offset, hs, v, id)
    ELSE ParseResult(Complete, offset, hs, v, id)

\* lines 253-344: the while loop, entered with the loop variable offset
RECURSIVE ParseLoop(_, _, _, _, _, _)
ParseLoop(rawMessage, offset, hs, v, limit, id) ==
    IF ~(offset < Len(rawMessage)) THEN ParseEnd(offset, hs, v, id)
    ELSE
    LET lineTerminator == Find(rawMessage, CRLF, offset)
    IN IF lineTerminator = NPOS
       THEN IF UnterminatedTooLong(rawMessage, offset, limit)
            THEN ParseError(hs, id)
            ELSE ParseEnd(offset, hs, v, id)
       ELSE IF LineTooLong(lineTerminator, offset, limit) THEN ParseError(hs, id)
       ELSE IF lineTerminator = offset
       THEN ParseEnd(offset + Len(CRLF), hs, v, id)
       ELSE
       LET nameValueDelimiter == Find(rawMessage, <<COLON>>, offset)
       IN IF nameValueDelimiter = NPOS THEN ParseError(hs, id)
          ELSE
          LET name == Substr(rawMessage, offset, nameValueDelimiter - offset)
              v2 == v /\ NameCharsValid(name)
              value == StripMarginWhitespace(
                           Substr(rawMessage, nameValueDelimiter + 1,
                                  lineTerminator - nameValueDelimiter - 1))
              u == Unfold(rawMessage, lineTerminator, lineTerminator + Len(CRLF), value)
          IN IF u.incomplete
             THEN ParseResult(Incomplete, u.offset, hs, v2, id)
             ELSE ParseLoop(rawMessage, u.offset,
                            Append(hs, Header(name, StripMarginWhitespace(u.value), id)),
                            v2, limit, id + 1)

ParseRawMessageRollsBack(rawMessage, hs, v, limit, id) ==
    LET r == ParseLoop(rawMessage, 0, hs, v, limit, id)
    IN IF r.state = Error THEN [r EXCEPT !.headers = hs] ELSE r

ParseRawMessageResetsValid(rawMessage, hs, v, limit, id) ==
    ParseLoop(rawMessage, 0, hs, TRUE, limit, id)

ParseRawMessageOp(rawMessage, hs, v, limit, id) == ParseLoop(rawMessage, 0, hs, v, limit, id)

----------------------------------------------------------------------------
(* GenerateRawHeaders and the folding of its lines                         *)

\* stands for a run of the folding strategy that read past the end of the
\* line buffer (undefined behaviour), and for a call that did not return
OutOfBounds == <<-1>>

\* line 224: s[i]; s[s.length()] is the terminating zero byte
CharAt(s, i) == IF i = Len(s) THEN 0 ELSE s[i + 1]

\* lines 221-235: the for loop of the folding strategy from offset i to last;
\* the first SP or HT seen by the strategy object is never a break
RECURSIVE FoldScan(_, _, _, _, _)
FoldScan(s, i, last, firstPart, breakOffset) ==
    IF ~(i <= last)
    THEN [firstPart |-> firstPart, breakOffset |-> breakOffset, undefined |-> FALSE]
    ELSE IF i > Len(s)
    THEN [firstPart |-> firstPart, breakOffset |-> breakOffset, undefined |-> TRUE]
    ELSE IF CharAt(s, i) = SP \/ CharAt(s, i) = HT
    THEN IF firstPart
         THEN FoldScan(s, i + 1, last, FALSE, breakOffset)
         ELSE FoldScan(s, i + 1, last, firstPart, i)
    ELSE FoldScan(s, i + 1, last, firstPart, breakOffset)

LastScannedFirstPartWindow(s, startOffset, limit, reservedCharacters) ==
    LET d == startOffset + limit - 2
    IN IF d < 0 THEN Len(s) + 1 ELSE d

\* line 222: startOffset + lineLengthLimit - reservedCharacters in size_t; a
\* negative difference wraps to 2^64 + d, which is beyond every offset of s
LastScanned(s, startOffset, limit, reservedCharacters) ==
    LET d == startOffset + limit - reservedCharacters
    IN IF d < 0 THEN Len(s) + 1 ELSE d

\* lines 212-238: one call of the strategy object, firstPart being its state
HeaderLineFoldingStrategy(s, startOffset, limit, firstPart) ==
    IF Len(s) - startOffset <= limit
    THEN [ok |-> TRUE, breakOffset |-> Len(s), firstPart |-> firstPart,
          undefined |-> FALSE]
    ELSE LET reservedCharacters == 2 + (IF firstPart THEN 0 ELSE 1)
             scan == FoldScan(s, startOffset,
                              LastScanned(s, startOffset, limit, reservedCharacters),
                              firstPart, startOffset)
         IN [ok |-> scan.breakOffset # startOffset,
             breakOffset |-> scan.breakOffset,
             firstPart |-> scan.firstPart,
             undefined |-> scan.undefined]

\* lines 116-117: part ends with terminator
EndsWith(part, terminator) ==
    /\ ~(Len(part) < Len(terminator))
    /\ Substr(part, Len(part) - Len(terminator), NPOS) = terminator

\* lines 103-123: the while loop of SplitLine; the parts are returned
\* concatenated, as GenerateRawHeaders writes them one after the other
RECURSIVE SplitLineLoop(_, _, _, _, _, _, _)
SplitLineLoop(inputLine, terminator, continuator, limit, currentLineStart, firstPart, output) ==
    IF ~(currentLineStart < Len(inputLine)) THEN output
    ELSE LET f == HeaderLineFoldingStrategy(inputLine, currentLineStart, limit, firstPart)
             part == (IF currentLineStart # 0 THEN continuator ELSE <<>>)
                         \o Substr(inputLine, currentLineStart,
                                   f.breakOffset - currentLineStart)
             whole == IF EndsWith(part, terminator) THEN part ELSE part \o terminator
         IN IF f.undefined THEN OutOfBounds
            ELSE IF ~f.ok THEN <<>>
            ELSE SplitLineLoop(inputLine, terminator, continuator, limit,
                               f.breakOffset + 1, f.firstPart, output \o whole)

SplitLineKeepsUnfolded(inputLine, terminator, continuator, limit) ==
    LET output == SplitLineLoop(inputLine, terminator, continuator, limit, 0, TRUE, <<>>)
    IN IF output = <<>> THEN inputLine ELSE output

\* lines 96-125, called with a new strategy object
SplitLine(inputLine, terminator, continuator, limit) ==
    SplitLineLoop(inputLine, terminator, continuator, limit, 0, TRUE, <<>>)

LineBufferNoSpace(header) == ((header.name \o <<COLON>>) \o header.value) \o CRLF

\* line 545: name, ": ", value, CRLF
LineBuffer(header) == ((header.name \o <<COLON, SP>>) \o header.value) \o CRLF

\* lines 542-558: the loop over the entries from entry i on
RECURSIVE GenerateRawHeadersFrom(_, _, _, _)
GenerateRawHeadersFrom(hs, i, limit, rawMessage) ==
    IF i > Len(hs) THEN rawMessage
    ELSE LET parts == IF limit > 0
                      THEN SplitLine(LineBuffer(hs[i]), CRLF, <<SP>>, limit)
                      ELSE LineBuffer(hs[i])
         IN IF parts = OutOfBounds THEN OutOfBounds
            ELSE GenerateRawHeadersFrom(hs, i + 1, limit, rawMessage \o parts)

\* MessageHeaders::GenerateRawHeaders
GenerateRawHeadersOp(hs, limit) ==
    LET rawMessage == GenerateRawHeadersFrom(hs, 1, limit, <<>>)
    IN IF rawMessage = OutOfBounds THEN OutOfBounds ELSE rawMessage \o CRLF

\* what a call that read past the end of the line buffer may do: not return,
\* or return any string, of which the empty one, the final CRLF alone and the
\* unfolded headers stand for all
UndefinedOutputs(hs) == {OutOfBounds, <<>>, CRLF, GenerateRawHeadersOp(hs, 0)}

----------------------------------------------------------------------------
(* The API calls as actions.  Every action records the call, the entries   *)
(* it found and what it returned.                                          *)

Call(op, name, value, values, oneLine, rawMessage, limit) ==
    [op |-> op, name |-> name, value |-> value, values |-> values,
     oneLine |-> oneLine, rawMessage |-> rawMessage, limit |-> limit]

NoCall == Call("none", <<>>, <<>>, <<>>, FALSE, <<>>, 0)

Record(c, r) ==
    /\ call' = c
    /\ before' = headers
    /\ ret' = r
    /\ calls' = calls + 1

\* the state after MessageHeaders::MessageHeaders()
Init ==
    /\ headers = <<>>
    /\ lineLengthLimit = 0
    /\ valid = TRUE
    /\ nextId = 1
    /\ calls = 0
    /\ call = NoCall
    /\ before = <<>>
    /\ ret = <<>>

SetHeader(name, value) ==
    /\ headers' = SetHeaderOp(headers, name, value, nextId)
    /\ nextId' = nextId + 1
    /\ Record(Call("SetHeader", name, value, <<>>, FALSE, <<>>, 0), <<>>)
    /\ UNCHANGED <<lineLengthLimit, valid>>

SetHeaderValues(name, values, oneLine) ==
    /\ headers' = SetHeaderValuesOp(headers, name, values, oneLine, nextId)
    /\ nextId' = nextId + Len(values)
    /\ Record(Call("SetHeaderValues", name, <<>>, values, oneLine, <<>>, 0), <<>>)
    /\ UNCHANGED <<lineLengthLimit, valid>>

AddHeader(name, value) ==
    /\ headers' = AddHeaderOp(headers, name, value, nextId)
    /\ nextId' = nextId + 1
    /\ Record(Call("AddHeader", name, value, <<>>, FALSE, <<>>, 0), <<>>)
    /\ UNCHANGED <<lineLengthLimit, valid>>

AddHeaderValues(name, values, oneLine) ==
    /\ headers' = AddHeaderValuesOp(headers, name, values, oneLine, nextId)
    /\ nextId' = nextId + Len(values)
    /\ Record(Call("AddHeaderValues", name, <<>>, values, oneLine, <<>>, 0), <<>>)
    /\ UNCHANGED <<lineLengthLimit, valid>>

RemoveHeader(headerName) ==
    /\ headers' = RemoveHeaderOp(headers, headerName)
    /\ Record(Call("RemoveHeader", headerName, <<>>, <<>>, FALSE, <<>>, 0), <<>>)
    /\ UNCHANGED <<lineLengthLimit, valid, nextId>>

HasHeader(name) ==
    /\ Record(Call("HasHeader", name, <<>>, <<>>, FALSE, <<>>, 0),
              HasHeaderOp(headers, name))
    /\ UNCHANGED <<headers, lineLengthLimit, valid, nextId>>

GetHeaderValue(headerName) ==
    /\ Record(Call("GetHeaderValue", headerName, <<>>, <<>>, FALSE, <<>>, 0),
              GetHeaderValueOp(headers, headerName))
    /\ UNCHANGED <<headers, lineLengthLimit, valid, nextId>>

GetHeaderMultiValues(headerName) ==
    /\ Record(Call("GetHeaderMultiValues", headerName, <<>>, <<>>, FALSE, <<>>, 0),
              GetHeaderMultiValuesOp(headers, headerName))
    /\ UNCHANGED <<headers, lineLengthLimit, valid, nextId>>

GetHeaderTokens(headerName) ==
    /\ Record(Call("GetHeaderTokens", headerName, <<>>, <<>>, FALSE, <<>>, 0),
              GetHeaderTokensOp(headers, headerName))
    /\ UNCHANGED <<headers, lineLengthLimit, valid, nextId>>

SetLineLimit(limit) ==
    /\ lineLengthLimit' = limit
    /\ Record(Call("SetLineLimit", <<>>, <<>>, <<>>, FALSE, <<>>, limit), <<>>)
    /\ UNCHANGED <<headers, valid, nextId>>

GenerateRawHeaders ==
    /\ LET rawMessage == GenerateRawHeadersOp(headers, lineLengthLimit)
       IN \E output \in (IF rawMessage = OutOfBounds THEN UndefinedOutputs(headers)
                          ELSE {rawMessage}) :
              Record(Call("GenerateRawHeaders", <<>>, <<>>, <<>>, FALSE, <<>>,
                          lineLengthLimit),
                     output)
    /\ UNCHANGED <<headers, lineLengthLimit, valid, nextId>>

\* a new MessageHeaders object is constructed and parses the string the last
\* GenerateRawHeaders call returned.  From here on the state is that of the
\* new object; before keeps the entries of the store that was serialized and
\* call.limit its line limit.
ParseIntoNewStore ==
    /\ call.op = "GenerateRawHeaders"
    /\ ret # OutOfBounds
    /\ LET r == ParseRawMessageOp(ret, <<>>, TRUE, 0, 1)
       IN /\ headers' = r.headers
          /\ valid' = r.valid
          /\ nextId' = r.nextId
          /\ lineLengthLimit' = 0
          /\ Record(Call("ParseIntoNewStore", <<>>, <<>>, <<>>, FALSE, ret,
                         lineLengthLimit),
                    [state |-> r.state, bodyOffset |-> r.bodyOffset])

\* MessageHeaders::IsValid
IsValidOp(v) == v

IsValid ==
    /\ Record(Call("IsValid", <<>>, <<>>, <<>>, FALSE, <<>>, 0), IsValidOp(valid))
    /\ UNCHANGED <<headers, lineLengthLimit, valid, nextId>>

ParseRawMessage(rawMessage) ==
    LET r == ParseRawMessageOp(rawMessage, headers, valid, lineLengthLimit, nextId)
    IN /\ headers' = r.headers
       /\ valid' = r.valid
       /\ nextId' = r.nextId
       /\ Record(Call("ParseRawMessage", <<>>, <<>>, <<>>, FALSE, rawMessage,
                      lineLengthLimit),
                 [state |-> r.state, bodyOffset |-> r.bodyOffset])
       /\ UNCHANGED lineLengthLimit

----------------------------------------------------------------------------
(* Bounds and the inputs the calls are given                               *)

MaxHeaders == 3
MaxCalls == 3
MaxLines == 3
MaxLimitLines == 2
MaxShortLen == 4
MaxLimit == 6
MaxFolds == 2
MaxResumeHeaders == 2
MaxRoundTrip == 2
MaxFoldHeaders == 2
MaxFoldLimit == 8
MaxTokenHeaders == 2
TestFoldLimit == 12
TestLineLimit == 1000

\* every byte string over alphabet of at most n bytes
ByteSeqs(alphabet, n) == UNION {[1..k -> alphabet] : k \in 0..n}

\* "ab", "aB", "ac", "a"
Names == {<<97, 98>>, <<97, 66>>, <<97, 99>>, <<97>>}

\* "x", "y"
Values == {<<120>>, <<121>>}

\* {}, {"x"}, {"y", "x"}, {"x", "y", "y"}
ValueLists == {<<>>, <<<<120>>>>, <<<<121>>, <<120>>>>, <<<<120>>, <<121>>, <<121>>>>}

\* the bodies of the lines the parser is given, without their CRLF:
\* "", "a:x", "a: x ", "ax", " x", " xx", HT " x:", "a b:", "   "
LineBodies ==
    { <<>>,
      <<97, COLON, 120>>,
      <<97, COLON, SP, 120, SP>>,
      <<97, 120>>,
      <<SP, 120>>,
      <<SP, 120, 120>>,
      <<HT, SP, 120, COLON>>,
      <<97, SP, 98, COLON>>,
      <<SP, SP, SP>> }

\* what may follow the last CRLF of a buffer: "", "a", "a:x", " xx", "x" CR
Tails == {<<>>, <<97>>, <<97, COLON, 120>>, <<SP, 120, 120>>, <<120, CR>>}

RECURSIVE LinesUpTo(_)
LinesUpTo(n) ==
    IF n = 0 THEN {<<>>}
    ELSE LET shorter == LinesUpTo(n - 1)
         IN shorter \cup {(x \o l) \o CRLF : x \in shorter, l \in LineBodies}

\* "a:" followed by n - 2 bytes "x", CRLF, and the blank line
LongLineMessage(n) ==
    ([i \in 1..n |-> IF i = 1 THEN 97 ELSE IF i = 2 THEN COLON ELSE 120] \o CRLF) \o CRLF

\* the first lines of folded headers: "a:x", "a: x ", "a:", "a b: "
FoldHeads ==
    { <<97, COLON, 120>>,
      <<97, COLON, SP, 120, SP>>,
      <<97, COLON>>,
      <<97, SP, 98, COLON, SP>> }

\* continuation lines of more than two bytes: " xx", HT " x:", "   ", " x " HT
FoldLines ==
    { <<SP, 120, 120>>,
      <<HT, SP, 120, COLON>>,
      <<SP, SP, SP>>,
      <<SP, 120, SP, HT>> }

\* what follows a folded header: the blank line; "b:y" and the blank line;
\* " x" and the blank line; "ax" and nothing more
FoldEnds ==
    { CRLF,
      <<98, COLON, 121, CR, LF, CR, LF>>,
      <<SP, 120, CR, LF, CR, LF>>,
      <<97, 120, CR, LF>> }

RECURSIVE FoldsUpTo(_)
FoldsUpTo(n) ==
    IF n = 0 THEN {<<>>}
    ELSE LET shorter == FoldsUpTo(n - 1)
         IN shorter \cup {(x \o l) \o CRLF : x \in shorter, l \in FoldLines}

\* a header line, at most MaxFolds continuation lines and what follows them
UnfoldRaws ==
    {((h \o CRLF) \o f) \o e : h \in FoldHeads, f \in FoldsUpTo(MaxFolds), e \in FoldEnds}

\* "Subject: This" CRLF " is a test" CRLF CRLF, the folded header of the
\* unfolding test
UnfoldingTestMessage ==
    <<83, 117, 98, 106, 101, 99, 116, COLON, SP, 84, 104, 105, 115, CR, LF,
      SP, 105, 115, SP, 97, SP, 116, 101, 115, 116, CR, LF, CR, LF>>

\* the buffers of SpecParse: up to MaxLines lines and a tail, every string of
\* at most MaxShortLen bytes over "a", ":", SP, CR, LF, and the folded headers
ParseRaws ==
    {x \o t : x \in LinesUpTo(MaxLines), t \in Tails}
        \cup ByteSeqs({97, COLON, SP, CR, LF}, MaxShortLen)
        \cup UnfoldRaws
        \cup {UnfoldingTestMessage}

\* the buffers of SpecLimit: up to MaxLimitLines lines and a tail, and the two
\* long messages of the line-limit tests
\* "a:x" CRLF " xxx" CRLF and the blank line
LongFoldMessage == <<97, COLON, 120, CR, LF, SP, 120, 120, 120, CR, LF, CR, LF>>

\* the tails of the buffers of SpecLimit: those of Tails and "a:xx"
LimitTails == Tails \cup {<<97, COLON, 120, 120>>}

LimitRaws ==
    {x \o t : x \in LinesUpTo(MaxLimitLines), t \in LimitTails}
        \cup {LongLineMessage(TestLineLimit - 2), LongLineMessage(TestLineLimit - 1)}
        \cup {LongFoldMessage}

ParseLimits == 0..MaxLimit \cup {TestLineLimit}

\* the inputs of the calls of Spec: "a", "A", "b"; "x", "y"
MainNames == {<<97>>, <<65>>, <<98>>}
MainValueLists == {<<>>, <<<<121>>, <<120>>>>}

\* "a:x" CRLF "b:y" CRLF "A:y" CRLF CRLF;  "a b:x" CRLF CRLF;  "b" CRLF;
\* "a:x" CRLF;  "b: x" CRLF " y y" CRLF CRLF;  "x" CRLF "a:y" CRLF CRLF;
\* "a:x" CRLF "b" CRLF CRLF
MainRaws ==
    { <<97, COLON, 120, CR, LF, 98, COLON, 121, CR, LF, 65, COLON, 121, CR, LF, CR, LF>>,
      <<97, SP, 98, COLON, 120, CR, LF, CR, LF>>,
      <<98, CR, LF>>,
      <<97, COLON, 120, CR, LF>>,
      <<98, COLON, SP, 120, CR, LF, SP, 121, SP, 121, CR, LF, CR, LF>>,
      <<120, CR, LF, 97, COLON, 121, CR, LF, CR, LF>>,
      <<97, COLON, 120, CR, LF, 98, CR, LF, CR, LF>> }

MainLimits == {0, 5}

----------------------------------------------------------------------------
(* Spec: any sequence of at most MaxCalls calls on a new store             *)

Next ==
    /\ calls < MaxCalls
    /\ \/ \E name \in MainNames, value \in Values : SetHeader(name, value)
       \/ \E name \in MainNames, values \in MainValueLists, oneLine \in BOOLEAN :
              SetHeaderValues(name, values, oneLine)
       \/ \E name \in MainNames, value \in Values : AddHeader(name, value)
       \/ \E name \in MainNames, values \in MainValueLists, oneLine \in BOOLEAN :
              AddHeaderValues(name, values, oneLine)
       \/ \E name \in MainNames : RemoveHeader(name)
       \/ \E limit \in MainLimits : SetLineLimit(limit)
       \/ \E rawMessage \in MainRaws : ParseRawMessage(rawMessage)
       \/ IsValid
       \/ GenerateRawHeaders

Spec == Init /\ [][Next]_vars

----------------------------------------------------------------------------
(* SpecStore: a store of at most MaxHeaders entries built by AddHeader     *)
(* calls, then one call of a store operation                               *)

BuiltByAddHeader ==
    /\ call.op \in {"none", "AddHeader"}
    /\ calls = Len(headers)
    /\ Len(headers) <= MaxHeaders

NextStore ==
    /\ BuiltByAddHeader
    /\ \/ \E name \in Names, value \in Values : SetHeader(name, value)
       \/ \E name \in Names, values \in ValueLists, oneLine \in BOOLEAN :
              SetHeaderValues(name, values, oneLine)
       \/ \E name \in Names, value \in Values : AddHeader(name, value)
       \/ \E name \in Names, values \in ValueLists, oneLine \in BOOLEAN :
              AddHeaderValues(name, values, oneLine)
       \/ \E name \in Names : RemoveHeader(name)
       \/ \E name \in Names : HasHeader(name)
       \/ \E name \in Names : GetHeaderValue(name)
       \/ \E name \in Names : GetHeaderMultiValues(name)
       \/ GenerateRawHeaders

SpecStore == Init /\ [][NextStore]_vars

----------------------------------------------------------------------------
(* SpecParse: one ParseRawMessage call on a new store, no line limit set   *)

NextParse ==
    /\ calls = 0
    /\ \E rawMessage \in ParseRaws : ParseRawMessage(rawMessage)

SpecParse == Init /\ [][NextParse]_vars

----------------------------------------------------------------------------
(* SpecLimit: SetLineLimit, then one ParseRawMessage call                  *)

NextLimit ==
    \/ /\ calls = 0
       /\ \E limit \in ParseLimits : SetLineLimit(limit)
    \/ /\ call.op = "SetLineLimit"
       /\ \E rawMessage \in LimitRaws : ParseRawMessage(rawMessage)

SpecLimit == Init /\ [][NextLimit]_vars

----------------------------------------------------------------------------
(* SpecResume: a well-formed header block arrives in two pieces.  Its      *)
(* prefix is parsed on a new store; when that returns Incomplete the bytes *)
(* of the block from the returned offset on are parsed on the same store.  *)

\* the headers of the blocks: "a:x" CRLF, "b: y" CRLF " zz" CRLF, "c:" CRLF
ResumeHeaders ==
    { <<97, COLON, 120, CR, LF>>,
      <<98, COLON, SP, 121, CR, LF, SP, 122, 122, CR, LF>>,
      <<99, COLON, CR, LF>> }

RECURSIVE HeadersUpTo(_)
HeadersUpTo(n) ==
    IF n = 0 THEN {<<>>}
    ELSE LET shorter == HeadersUpTo(n - 1)
         IN shorter \cup {x \o h : x \in shorter, h \in ResumeHeaders}

\* one to MaxResumeHeaders headers and the blank line
ResumeBlocks == {x \o CRLF : x \in HeadersUpTo(MaxResumeHeaders) \ {<<>>}}

NextResume ==
    \/ /\ calls = 0
       /\ \E B \in ResumeBlocks :
              \E cut \in 0..Len(B) : ParseRawMessage(SubSeq(B, 1, cut))
    \/ /\ calls = 1
       /\ ret.state = Incomplete
       /\ \E B \in ResumeBlocks :
              /\ Len(call.rawMessage) <= Len(B)
              /\ SubSeq(B, 1, Len(call.rawMessage)) = call.rawMessage
              /\ ParseRawMessage(SubSeq(B, ret.bodyOffset + 1, Len(B)))

SpecResume == Init /\ [][NextResume]_vars

----------------------------------------------------------------------------
(* SpecRoundTrip: a store of at most MaxRoundTrip entries is built by      *)
(* AddHeader calls, serialized with no line limit, and the output is       *)
(* parsed by a new store                                                   *)

\* "a", "B", "a:b", "a b"
RoundTripNames == {<<97>>, <<66>>, <<97, COLON, 98>>, <<97, SP, 98>>}

\* "", "x y", "x:y", "x" CR, " x"
RoundTripValues ==
    {<<>>, <<120, SP, 121>>, <<120, COLON, 121>>, <<120, CR>>, <<SP, 120>>}

NextRoundTrip ==
    \/ /\ BuiltByAddHeader
       /\ Len(headers) < MaxRoundTrip
       /\ \E name \in RoundTripNames, value \in RoundTripValues : AddHeader(name, value)
    \/ /\ BuiltByAddHeader
       /\ GenerateRawHeaders
    \/ ParseIntoNewStore

SpecRoundTrip == Init /\ [][NextRoundTrip]_vars

----------------------------------------------------------------------------
(* SpecFold: SetLineLimit, then a store of at most MaxFoldHeaders entries  *)
(* built by AddHeader calls is serialized, and the output is parsed by a   *)
(* new store                                                               *)

\* "X", "a b"
FoldNames == {<<88>>, <<97, SP, 98>>}

\* "Hello, World!", "This is even longer!", "aaadadazdadcvbfdfvdf"
TestFoldValues ==
    { <<72, 101, 108, 108, 111, 44, SP, 87, 111, 114, 108, 100, 33>>,
      <<84, 104, 105, 115, SP, 105, 115, SP, 101, 118, 101, 110, SP,
        108, 111, 110, 103, 101, 114, 33>>,
      <<97, 97, 97, 100, 97, 100, 97, 122, 100, 97, 100, 99, 118, 98, 102,
        100, 102, 118, 100, 102>> }

\* "", "a b c", "a bcde", "ab cd e", "a" HT "b c", "a  b", and the values of
\* the test
FoldValues ==
    { <<>>,
      <<97, SP, 98, SP, 99>>,
      <<97, SP, 98, 99, 100, 101>>,
      <<97, 98, SP, 99, 100, SP, 101>>,
      <<97, HT, 98, SP, 99>>,
      <<97, SP, SP, 98>> } \cup TestFoldValues

FoldLimits == 1..MaxFoldLimit \cup {TestFoldLimit}

FoldStoreBuilt ==
    /\ call.op \in {"SetLineLimit", "AddHeader"}
    /\ calls = Len(headers) + 1

NextFold ==
    \/ /\ calls = 0
       /\ \E limit \in FoldLimits : SetLineLimit(limit)
    \/ /\ FoldStoreBuilt
       /\ Len(headers) < MaxFoldHeaders
       /\ \E name \in FoldNames, value \in FoldValues : AddHeader(name, value)
    \/ /\ FoldStoreBuilt
       /\ GenerateRawHeaders
    \/ ParseIntoNewStore

SpecFold == Init /\ [][NextFold]_vars

----------------------------------------------------------------------------
(* SpecTokens: a store of at most MaxTokenHeaders entries built by         *)
(* AddHeader calls, at most one SetHeader(name, values, oneLine) call,     *)
(* then GetHeaderTokens                                                    *)

\* "a", "A", "b"
TokenNames == {<<97>>, <<65>>, <<98>>}

\* "", "x", "x,y", " x , y", "x,", ",,"
TokenValues ==
    { <<>>, <<120>>, <<120, COMMA, 121>>, <<SP, 120, SP, COMMA, SP, 121>>,
      <<120, COMMA>>, <<COMMA, COMMA>> }

\* {}, {"x"}, {"y", "x"}, {" x", "y ", "x"}, {"x,y", "x"}, {"", "x"}
TokenValueLists ==
    { <<>>, <<<<120>>>>, <<<<121>>, <<120>>>>,
      <<<<SP, 120>>, <<121, SP>>, <<120>>>>,
      <<<<120, COMMA, 121>>, <<120>>>>, <<<<>>, <<120>>>> }

TokenStoreBuilt ==
    /\ call.op \in {"none", "AddHeader"}
    /\ calls = Len(headers)

NextTokens ==
    \/ /\ TokenStoreBuilt
       /\ Len(headers) < MaxTokenHeaders
       /\ \E name \in TokenNames, value \in TokenValues : AddHeader(name, value)
    \/ /\ TokenStoreBuilt
       /\ \E name \in TokenNames, values \in TokenValueLists, oneLine \in BOOLEAN :
              SetHeaderValues(name, values, oneLine)
    \/ /\ call.op \in {"none", "AddHeader", "SetHeaderValues"}
       /\ \E name \in TokenNames : GetHeaderTokens(name)

SpecTokens == Init /\ [][NextTokens]_vars

----------------------------------------------------------------------------
(* What the claims speak of, stated without the operations                 *)

AsciiLower(c) == IF c \in 65..90 THEN c + 32 ELSE c

\* same length and byte-wise equal after ASCII lowercasing
CaseEq(a, b) ==
    /\ Len(a) = Len(b)
    /\ \A i \in 1..Len(a) : AsciiLower(a[i]) = AsciiLower(b[i])

\* the positions of the entries of hs that match name
Matches(hs, name) == {i \in 1..Len(hs) : CaseEq(hs[i].name, name)}

\* the k-th smallest element of the set of numbers S
Nth(S, k) == CHOOSE i \in S : Cardinality({j \in S : j <= i}) = k

\* a is b restricted to the positions keep, in the same order
IsRestriction(a, b, keep) ==
    /\ Len(a) = Cardinality(keep)
    /\ \A k \in 1..Len(a) : a[k] = b[Nth(keep, k)]

\* a is b followed by one new entry per value, each named name, in order
IsExtension(a, b, name, values) ==
    /\ Len(a) = Len(b) + Len(values)
    /\ SubSeq(a, 1, Len(b)) = b
    /\ \A k \in 1..Len(values) :
           /\ a[Len(b) + k].name = name
           /\ a[Len(b) + k].value = values[k]

\* a is what set(name, value) makes of b
IsSetOf(a, b, name, value) ==
    LET M == Matches(b, name)
    IN IF M = {}
       THEN IsExtension(a, b, name, <<value>>)
       ELSE LET f == Min(M)
                keep == (1..Len(b)) \ (M \ {f})
            IN IsRestriction(a, [b EXCEPT ![f].value = value], keep)

RECURSIVE Joined(_)
Joined(values) ==
    IF Len(values) = 1 THEN values[1]
    ELSE (values[1] \o <<44>>) \o Joined(Tail(values))

\* the offsets of the CRLFs of raw; line k of raw ends at the k-th of them
CrlfAt(raw) == {i \in 0..(Len(raw) - 2) : raw[i + 1] = 13 /\ raw[i + 2] = 10}

\* how many CRLF-terminated lines raw holds
NumLines(raw) == Cardinality(CrlfAt(raw))

\* the bytes of line k of raw, without its CRLF
LineBody(raw, k) ==
    LET start == IF k = 1 THEN 0 ELSE Nth(CrlfAt(raw), k - 1) + 2
    IN SubSeq(raw, start + 1, Nth(CrlfAt(raw), k))

\* the bytes of raw after its last CRLF
Unterminated(raw) ==
    IF CrlfAt(raw) = {} THEN raw
    ELSE SubSeq(raw, Max(CrlfAt(raw)) + 3, Len(raw))

\* a line that holds a ":" and does not begin with SP or HT
HasNameAndColon(b) ==
    /\ b # <<>>
    /\ b[1] \notin {32, 9}
    /\ \E p \in 1..Len(b) : b[p] = 58

\* NAME ":" rest, NAME one or more bytes in 33..126
WellFormedHeaderLine(b) ==
    \E p \in 2..Len(b) :
        /\ b[p] = 58
        /\ \A q \in 1..(p - 1) : b[q] \in (33..126) \ {58}

\* a line that begins with SP or HT
ContinuationLine(b) == b # <<>> /\ b[1] \in {32, 9}

\* with limit L, a line of n bytes before its CRLF is too long
TooLong(n, L) == L > 0 /\ n + 2 > L


----------------------------------------------------------------------------
(* Claims                                                                  *)

\* C1: SetHeader(n, v) gives the first entry matching n the value v, in place
\* and with its stored name, erases every later match and leaves the other
\* entries and their order alone; with no match it appends one entry (n, v).
\* Afterwards get_value(n) = v and exactly one entry matches n.
C1_SetHeader ==
    call.op = "SetHeader" =>
        /\ IsSetOf(headers, before, call.name, call.value)
        /\ GetHeaderValueOp(headers, call.name) = call.value
        /\ Cardinality(Matches(headers, call.name)) = 1

\* a SetHeader call that found two matches with another entry between them
C1_Witness ==
    /\ call.op = "SetHeader"
    /\ \E i, j, k \in 1..Len(before) :
           /\ i < j /\ j < k
           /\ {i, k} \subseteq Matches(before, call.name)
           /\ j \notin Matches(before, call.name)
    /\ Len(headers) = 2

\* C2: AddHeader(n, v) appends exactly one entry (n, v) at the tail, also when
\* entries named n exist; AddHeader(n, values, oneLine = false) appends one
\* entry per value, in order; the entries present before are unchanged.
C2_AddHeader ==
    /\ call.op = "AddHeader" =>
           IsExtension(headers, before, call.name, <<call.value>>)
    /\ (call.op = "AddHeaderValues" /\ ~call.oneLine) =>
           IsExtension(headers, before, call.name, call.values)

\* an AddHeader(n, values, false) call of three values on a store holding n
C2_Witness ==
    /\ call.op = "AddHeaderValues"
    /\ ~call.oneLine
    /\ Len(call.values) = 3
    /\ Matches(before, call.name) # {}
    /\ Len(headers) = Len(before) + 3

\* C3: after RemoveHeader(n) no entry matches n and has(n) is false; the other
\* entries are unchanged and in the same order; with no match the store is
\* unchanged.
C3_RemoveHeader ==
    call.op = "RemoveHeader" =>
        /\ ~HasHeaderOp(headers, call.name)
        /\ Matches(headers, call.name) = {}
        /\ IsRestriction(headers, before,
                         (1..Len(before)) \ Matches(before, call.name))
        /\ Matches(before, call.name) = {} => headers = before

\* a RemoveHeader call that erased two entries around one that stays
C3_Witness ==
    /\ call.op = "RemoveHeader"
    /\ \E i, j, k \in 1..Len(before) :
           /\ i < j /\ j < k
           /\ {i, k} \subseteq Matches(before, call.name)
           /\ j \notin Matches(before, call.name)
    /\ Len(headers) = Len(before) - 2

\* C4 as claimed: names are equal exactly when they have the same length and
\* are byte-wise equal after ASCII lowercasing, and has, get_value, get_multi,
\* set and remove give the same result and the same resulting store for any
\* two names that differ only in letter case.
C4_SameWhicheverCase ==
    /\ \A a, b \in Names : NameEq(a, b) <=> CaseEq(a, b)
    /\ \A other \in Names :
           CaseEq(other, call.name) =>
               /\ call.op = "HasHeader" => ret = HasHeaderOp(before, other)
               /\ call.op = "GetHeaderValue" => ret = GetHeaderValueOp(before, other)
               /\ call.op = "GetHeaderMultiValues" =>
                      ret = GetHeaderMultiValuesOp(before, other)
               /\ call.op = "SetHeader" =>
                      headers = SetHeaderOp(before, other, call.value, nextId - 1)
               /\ call.op = "RemoveHeader" => headers = RemoveHeaderOp(before, other)

\* C4, amended: as claimed, except that set gives the same resulting store
\* only when some entry matches; when none does, the appended entry carries
\* the name in the casing that was passed, and the stores differ in that name
\* alone.
C4_SameUpToAppendedName ==
    /\ \A a, b \in Names : NameEq(a, b) <=> CaseEq(a, b)
    /\ \A other \in Names :
           CaseEq(other, call.name) =>
               /\ call.op = "HasHeader" => ret = HasHeaderOp(before, other)
               /\ call.op = "GetHeaderValue" => ret = GetHeaderValueOp(before, other)
               /\ call.op = "GetHeaderMultiValues" =>
                      ret = GetHeaderMultiValuesOp(before, other)
               /\ call.op = "SetHeader" =>
                      IF Matches(before, call.name) # {}
                      THEN headers = SetHeaderOp(before, other, call.value, nextId - 1)
                      ELSE /\ headers =
                                  Append(before, Header(call.name, call.value, nextId - 1))
                           /\ SetHeaderOp(before, other, call.value, nextId - 1) =
                                  Append(before, Header(other, call.value, nextId - 1))
               /\ call.op = "RemoveHeader" => headers = RemoveHeaderOp(before, other)

\* a SetHeader call whose name is stored only in another casing, twice
C4_Witness ==
    /\ call.op = "SetHeader"
    /\ Cardinality(Matches(before, call.name)) = 2
    /\ \A i \in Matches(before, call.name) : before[i].name # call.name
    /\ Len(headers) = Len(before) - 1

\* C5: the entries are held in insertion order, entries sharing a name
\* included, and no call changes the relative order of two entries that are in
\* the store before and after it.
C5_InsertionOrder ==
    /\ \A i, j \in 1..Len(headers) : i < j => headers[i].id < headers[j].id
    /\ \A i, j \in 1..Len(before) : \A k, l \in 1..Len(headers) :
           (i < j /\ before[i].id = headers[k].id /\ before[j].id = headers[l].id)
               => k < l

\* a RemoveHeader call that erased the entry between two entries sharing a name
C5_Witness ==
    /\ call.op = "RemoveHeader"
    /\ Len(before) = 3
    /\ Len(headers) = 2
    /\ CaseEq(headers[1].name, headers[2].name)
    /\ headers[1] = before[1]
    /\ headers[2] = before[3]

\* C6 as claimed: no stored value contains a CRLF and no stored name contains
\* a byte outside 33..126.
C6_StoreClean ==
    \A i \in 1..Len(headers) :
        /\ \A k \in 1..Len(headers[i].name) : headers[i].name[k] \in 33..126
        /\ ~\E k \in 1..(Len(headers[i].value) - 1) :
               /\ headers[i].value[k] = 13
               /\ headers[i].value[k + 1] = 10

C8_LineLimit ==
    call.op = "ParseRawMessage" =>
        LET raw == call.rawMessage
            L == call.limit
            reached == {k \in 1..NumLines(raw) :
                           /\ \A j \in 1..k : HasNameAndColon(LineBody(raw, j))
                           /\ \A j \in 1..(k - 1) : ~TooLong(Len(LineBody(raw, j)), L)}
        IN /\ \A k \in reached :
                  IF TooLong(Len(LineBody(raw, k)), L)
                  THEN ret.state = Error /\ Len(headers) = k - 1
                  ELSE ret.state = Error => Len(headers) >= k
           /\ raw = LongLineMessage(TestLineLimit - 2) =>
                  ret.state = (IF L = 0 \/ L = TestLineLimit THEN Complete ELSE Error)
           /\ raw = LongLineMessage(TestLineLimit - 1) =>
                  ret.state = (IF L = 0 THEN Complete ELSE Error)

\* the message whose header line has 1001 bytes in all, parsed with L = 1000
C8_Witness ==
    /\ call.op = "ParseRawMessage"
    /\ call.limit = TestLineLimit
    /\ call.rawMessage = LongLineMessage(TestLineLimit - 1)
    /\ ret.state = Error
    /\ headers = <<>>

\* C9 as claimed: Complete is returned only when a CRLF at the start of a line
\* was reached, the body offset is the index right after that CRLF, and the
\* bytes from there on produce no entries: the entries are those of the buffer
\* cut at the body offset.
C9_CompleteAtBlankLine ==
    (call.op = "ParseRawMessage" /\ ret.state = Complete) =>
        LET raw == call.rawMessage
            o == ret.bodyOffset
        IN /\ o >= 2
           /\ raw[o - 1] = 13 /\ raw[o] = 10
           /\ o = 2 \/ (o >= 4 /\ raw[o - 3] = 13 /\ raw[o - 2] = 10)
           /\ GetAll(headers) =
                  GetAll(ParseRawMessageOp(SubSeq(raw, 1, o), before, TRUE,
                                           call.limit, 1).headers)

\* C10 as claimed: a buffer with no blank line, whose first complete line is a
\* well-formed header line and whose further complete lines are well-formed
\* header lines or continuation lines, and in which no line and no
\* unterminated rest is too long, parses to Incomplete.
C10_TruncatedIsIncomplete ==
    LET raw == call.rawMessage
        L == call.limit
        n == NumLines(raw)
    IN ( /\ call.op = "ParseRawMessage"
         /\ \A k \in 1..n : LineBody(raw, k) # <<>>
         /\ n >= 1 => WellFormedHeaderLine(LineBody(raw, 1))
         /\ \A k \in 2..n : \/ WellFormedHeaderLine(LineBody(raw, k))
                            \/ ContinuationLine(LineBody(raw, k))
         /\ \A k \in 1..n : ~TooLong(Len(LineBody(raw, k)), L)
         /\ ~TooLong(Len(Unterminated(raw)), L) )
       => ret.state = Incomplete

\* line k of raw stands where a header line is read: it is the first line, or
\* the lines before it are well-formed header lines and it does not begin
\* with SP or HT
AtHeaderLinePosition(raw, k) ==
    /\ \A j \in 1..(k - 1) : WellFormedHeaderLine(LineBody(raw, j))
    /\ k > 1 => ~ContinuationLine(LineBody(raw, k))

\* C11 as claimed: a non-empty CRLF-terminated line at header-line position
\* with no ":" before its CRLF makes the call return Error, and nothing is
\* stored for that line or after it, whatever follows the line.
C11_NoColonIsError ==
    call.op = "ParseRawMessage" =>
        \A k \in 1..NumLines(call.rawMessage) :
            LET b == LineBody(call.rawMessage, k)
            IN ( /\ AtHeaderLinePosition(call.rawMessage, k)
                 /\ b # <<>>
                 /\ \A p \in 1..Len(b) : b[p] # 58 )
               => ret.state = Error /\ Len(headers) = Len(before) + k - 1

RECURSIVE DropLeadingWsp(_)
DropLeadingWsp(s) ==
    IF s # <<>> /\ s[1] \in {32, 9} THEN DropLeadingWsp(Tail(s)) ELSE s

RECURSIVE DropTrailingWsp(_)
DropTrailingWsp(s) ==
    IF s # <<>> /\ s[Len(s)] \in {32, 9}
    THEN DropTrailingWsp(SubSeq(s, 1, Len(s) - 1))
    ELSE s

\* the position of the first ":" of a line that holds one
FirstColon(b) == Min({p \in 1..Len(b) : b[p] = 58})

\* a line that begins with SP or HT and has more than two bytes
LongContinuationLine(b) == ContinuationLine(b) /\ Len(b) > 2

\* how many lines of more than two bytes beginning with SP or HT follow
\* line 1 of raw without interruption
FoldCount(raw) ==
    Max({m \in 0..(NumLines(raw) - 1) :
            \A j \in 2..(m + 1) : LongContinuationLine(LineBody(raw, j))})

\* the value of line 1 stripped, then for each of the next m lines one SP and
\* the line without its leading WSP
RECURSIVE FoldedValue(_, _)
FoldedValue(raw, m) ==
    IF m = 0
    THEN LET b == LineBody(raw, 1)
         IN DropTrailingWsp(DropLeadingWsp(SubSeq(b, FirstColon(b) + 1, Len(b))))
    ELSE (FoldedValue(raw, m - 1) \o <<32>>) \o DropLeadingWsp(LineBody(raw, m + 1))

\* the first line of raw is a header line and a complete line that is no
\* continuation line follows its continuation lines
FoldedHeaderEnded(raw) ==
    /\ NumLines(raw) >= 1
    /\ HasNameAndColon(LineBody(raw, 1))
    /\ NumLines(raw) >= FoldCount(raw) + 2

BlankLine(raw) ==
    LET blanks == {k \in 1..NumLines(raw) : LineBody(raw, k) = <<>>}
    IN IF blanks = {} THEN 0 ELSE Min(blanks)

\* how many complete lines raw holds before its blank line
HeaderLines(raw) ==
    IF BlankLine(raw) = 0 THEN NumLines(raw) ELSE BlankLine(raw) - 1

\* every line before the blank line holds a ":" and none but the first is a
\* continuation line of more than two bytes: each is read as a header line
AllHeaderLines(raw) ==
    \A k \in 1..HeaderLines(raw) :
        LET b == LineBody(raw, k)
        IN /\ \E p \in 1..Len(b) : b[p] = 58
           /\ k > 1 => ~LongContinuationLine(b)

\* the bytes of a header line before its first ":"
LineName(b) == SubSeq(b, 1, FirstColon(b) - 1)

\* some byte of the name is outside 33..126
BadName(name) == \E q \in 1..Len(name) : name[q] \notin 33..126

\* some header line of raw has a name with a byte outside 33..126
SomeBadName(raw) ==
    \E k \in 1..HeaderLines(raw) : BadName(LineName(LineBody(raw, k)))

C14_BadNameNotComplete ==
    ( /\ call.op = "ParseRawMessage"
      /\ AllHeaderLines(call.rawMessage)
      /\ SomeBadName(call.rawMessage) ) =>
        ret.state # Complete

\* the offset at which line k of raw begins
LineStart(raw, k) == IF k = 1 THEN 0 ELSE Nth(CrlfAt(raw), k - 1) + 2

\* the bytes from the start of line k of raw up to the next ":" of the buffer
NameReadAt(raw, k) ==
    LET s == LineStart(raw, k)
    IN SubSeq(raw, s + 1, Min({p \in (s + 1)..Len(raw) : raw[p] = 58}) - 1)

\* some line before the blank line that is read as a header line (the first,
\* or one that is no continuation line of more than two bytes) is followed by
\* a ":" and the bytes up to it, its name, hold a byte outside 33..126
ReadsBadName(raw) ==
    \E k \in 1..HeaderLines(raw) :
        /\ k > 1 => ~LongContinuationLine(LineBody(raw, k))
        /\ \E p \in (LineStart(raw, k) + 1)..Len(raw) : raw[p] = 58
        /\ BadName(NameReadAt(raw, k))

\* C15 as claimed: a call leaves is_valid() false exactly when it was false
\* before or the call is a parse that read a header name with a byte outside
\* 33..126.
C15_InvalidOnlyByBadName ==
    [][ /\ valid' <=> (valid /\ ~(call'.op = "ParseRawMessage"
                                    /\ ReadsBadName(call'.rawMessage)))
        /\ call'.op = "IsValid" => ret' = valid' ]_vars

\* C15: a call leaves is_valid() false exactly when it was false before or
\* the call is a parse that returned Error or read a header name with a byte
\* outside 33..126; is_valid() returns the flag.
C15_InvalidByBadNameOrError ==
    [][ /\ valid' <=> (valid /\ ~(call'.op = "ParseRawMessage"
                                    /\ (ret'.state = Error
                                          \/ ReadsBadName(call'.rawMessage))))
        /\ call'.op = "IsValid" => ret' = valid' ]_vars

\* is_valid() returns false after a parse that met the name "a b" and
\* returned Complete
C15_Witness ==
    /\ call.op = "IsValid"
    /\ ret = FALSE
    /\ Len(headers) = 1
    /\ headers[1].name = <<97, 32, 98>>

\* C16: the valid flag is a latch.  A store on which no call was made is
\* valid, a parse call that returns Error leaves is_valid() false, and once
\* the flag is false no parse, set, add, remove, set_line_limit, serialize or
\* query call makes it true again.
C16_ValidLatch ==
    [][ /\ calls = 0 => valid
        /\ (call'.op = "ParseRawMessage" /\ ret'.state = Error) => ~valid'
        /\ ~valid => ~valid'
        /\ call'.op = "IsValid" => ret' = valid' ]_vars

\* the flag is still false after a later parse that returned Complete and
\* left only names without a bad byte in the store
C16_Witness ==
    /\ ~valid
    /\ calls = MaxCalls
    /\ call.op = "ParseRawMessage"
    /\ ret.state = Complete
    /\ Len(headers) > Len(before)
    /\ \A i \in 1..Len(headers) : ~BadName(headers[i].name)

\* C17 as claimed: when a prefix of a well-formed block B was parsed on a new
\* store with result Incomplete and offset o, and the bytes of B from o on
\* were then parsed on the same store, the second call returns Complete and
\* the store holds the entries of a single parse of B.
C17_ResumeEqualsOneShot ==
    (calls = 2 /\ call.op = "ParseRawMessage") =>
        \A B \in ResumeBlocks :
            \A cut \in 0..Len(B) :
                LET first == ParseRawMessageOp(SubSeq(B, 1, cut), <<>>, TRUE, 0, 1)
                IN ( /\ first.state = Incomplete
                     /\ first.headers = before
                     /\ call.rawMessage = SubSeq(B, first.bodyOffset + 1, Len(B)) )
                   => /\ ret.state = Complete
                      /\ GetAll(headers) =
                             GetAll(ParseRawMessageOp(B, <<>>, TRUE, 0, 1).headers)

\* the last complete line of raw that is a header line, 0 when there is none
LastHeaderLine(raw) ==
    LET hl == {k \in 1..NumLines(raw) : WellFormedHeaderLine(LineBody(raw, k))}
    IN IF hl = {} THEN 0 ELSE Max(hl)

\* C18 as claimed: when the buffer has no blank line, its first complete line
\* is a well-formed header line and the others are well-formed header lines
\* or continuation lines of more than two bytes, the last header is still in
\* progress: the call returns Incomplete, the headers before the last one are
\* stored, and the returned offset is where the last header's first line
\* begins.
C18_IncompleteOffsetAtHeaderStart ==
    LET raw == call.rawMessage
        n == NumLines(raw)
        h == LastHeaderLine(raw)
    IN ( /\ call.op = "ParseRawMessage"
         /\ n >= 1
         /\ WellFormedHeaderLine(LineBody(raw, 1))
         /\ \A k \in 2..n : \/ WellFormedHeaderLine(LineBody(raw, k))
                            \/ LongContinuationLine(LineBody(raw, k)) )
       => /\ ret.state = Incomplete
          /\ Len(headers) =
                 Cardinality({k \in 1..(h - 1) : WellFormedHeaderLine(LineBody(raw, k))})
          /\ ret.bodyOffset = LineStart(raw, h)

\* name, ": ", value, CRLF for each entry in order, then one CRLF
RECURSIVE Serialized(_)
Serialized(hs) ==
    IF hs = <<>> THEN <<13, 10>>
    ELSE (((hs[1].name \o <<58, 32>>) \o hs[1].value) \o <<13, 10>>) \o Serialized(Tail(hs))

\* C19: with L = 0, GenerateRawHeaders returns, for the entries in insertion
\* order, the stored name as stored, ": ", the value and CRLF, then one final
\* CRLF; an empty store gives exactly CRLF, and the store is left unchanged.
C19_GenerateRawHeaders ==
    (call.op = "GenerateRawHeaders" /\ call.limit = 0) =>
        /\ ret = Serialized(before)
        /\ before = <<>> => ret = <<13, 10>>
        /\ headers = before
        /\ \A i \in 1..(Len(before) - 1) : before[i].id < before[i + 1].id

\* three entries, the first named "aB", serialized
C19_Witness ==
    /\ call.op = "GenerateRawHeaders"
    /\ call.limit = 0
    /\ Len(headers) = 3
    /\ headers[1].name = <<97, 66>>
    /\ headers[2].name = <<97, 98>>
    /\ SubSeq(ret, 1, 4) = <<97, 66, 58, 32>>
    /\ Len(ret) = 3 * 7 + 2

\* no CRLF inside and no SP or HT at either end
CleanValue(v) ==
    /\ \A i \in 1..(Len(v) - 1) : ~(v[i] = 13 /\ v[i + 1] = 10)
    /\ v # <<>> => (v[1] \notin {32, 9} /\ v[Len(v)] \notin {32, 9})

\* every name of hs is non-empty with bytes in 33..126, every value clean
RoundTripStore(hs) ==
    \A i \in 1..Len(hs) :
        /\ hs[i].name # <<>>
        /\ ~BadName(hs[i].name)
        /\ CleanValue(hs[i].value)

\* no name of hs holds a ":"
NoColonInNames(hs) ==
    \A i \in 1..Len(hs) : \A q \in 1..Len(hs[i].name) : hs[i].name[q] # 58

\* C20 as claimed: the output of GenerateRawHeaders with L = 0 for a store
\* with names of bytes in 33..126 and clean values, parsed by a new store,
\* gives Complete, a body offset equal to the output's length and the same
\* entries in the same order.
C20_RoundTripAnyName ==
    (call.op = "ParseIntoNewStore" /\ RoundTripStore(before)) =>
        /\ ret.state = Complete
        /\ ret.bodyOffset = Len(call.rawMessage)
        /\ GetAll(headers) = GetAll(before)

\* C20: the output of GenerateRawHeaders with L = 0 for a store whose names
\* are non-empty with bytes in 33..126 other than ":" and whose values are
\* CRLF-free and WSP-stripped, parsed by a new store, gives Complete, a body
\* offset equal to the output's length and the same entries in the same order.
C20_RoundTrip ==
    (call.op = "ParseIntoNewStore" /\ RoundTripStore(before) /\ NoColonInNames(before)) =>
        /\ call.rawMessage = Serialized(before)
        /\ ret.state = Complete
        /\ ret.bodyOffset = Len(call.rawMessage)
        /\ GetAll(headers) = GetAll(before)
        /\ valid

\* the store (a, "x:y"), (B, "x" CR) came back from its serialization
C20_Witness ==
    /\ call.op = "ParseIntoNewStore"
    /\ GetAll(before) = << <<(<<97>>), <<120, 58, 121>> >>, <<(<<66>>), <<120, 13>> >> >>
    /\ GetAll(headers) = GetAll(before)
    /\ ret.state = Complete

\* a value with no CR and no LF
NoLineBreak(v) == \A i \in 1..Len(v) : v[i] \notin {13, 10}

\* the last call was GenerateRawHeaders with a line limit, it read nothing
\* but its line buffers, and no value of the store holds a CR or LF
FoldedOutput ==
    /\ call.op = "GenerateRawHeaders"
    /\ call.limit > 0
    /\ GenerateRawHeadersOp(headers, call.limit) # OutOfBounds
    /\ \A i \in 1..Len(headers) : NoLineBreak(headers[i].value)

\* C21 as claimed: with L > 0 every line of the output of GenerateRawHeaders,
\* counted with its CRLF, has at most L bytes (stated for the calls whose
\* behaviour is defined).
C21_FoldedLinesFit ==
    FoldedOutput =>
        /\ Unterminated(ret) = <<>>
        /\ \A k \in 1..(NumLines(ret) - 1) : Len(LineBody(ret, k)) + 2 <= call.limit

\* with limit L the serializer produces lines for the header
CanBeFolded(header, L) ==
    SplitLine(LineBuffer(header), <<13, 10>>, <<32>>, L) \notin {<<>>, OutOfBounds}

\* C22 as claimed: with L > 0, when every header of a store with good names
\* and clean values can be folded, the output of GenerateRawHeaders parsed by
\* a new store gives the same entries with the same values.
C22_FoldRoundTrip ==
    ( /\ call.op = "ParseIntoNewStore"
      /\ call.limit > 0
      /\ RoundTripStore(before)
      /\ NoColonInNames(before)
      /\ \A i \in 1..Len(before) :
             NoLineBreak(before[i].value) /\ CanBeFolded(before[i], call.limit) ) =>
        GetAll(headers) = GetAll(before)

\* the line of an entry before folding: name, ": ", value, CRLF
HeaderLineOf(h) == ((h.name \o <<58, 32>>) \o h.value) \o <<13, 10>>

\* the offsets of the SP and HT bytes of s
WspOffsets(s) == {i \in 0..(Len(s) - 1) : s[i + 1] \in {32, 9}}

\* the offsets at which the part of s that begins at start may be broken with
\* limit L: the SP and HT bytes from start to start + L - 2 for the first
\* part, to start + L - 3 for a later part, the first SP or HT of s excepted
BreakCandidates(s, start, L) ==
    {i \in WspOffsets(s) :
        /\ start <= i
        /\ i <= start + L - (IF start = 0 THEN 2 ELSE 3)
        /\ i # Min(WspOffsets(s))}

\* the part of s from start on can be folded to fit L: it fits, or it can be
\* broken after start at the last candidate and the rest can be folded
RECURSIVE Foldable(_, _, _)
Foldable(s, start, L) ==
    \/ Len(s) - start <= L
    \/ /\ BreakCandidates(s, start, L) # {}
       /\ Max(BreakCandidates(s, start, L)) # start
       /\ Foldable(s, Max(BreakCandidates(s, start, L)) + 1, L)

\* the entries of hs that can be folded to fit L, in order
FoldableOnly(hs, L) ==
    LET CanFold(h) == Foldable(HeaderLineOf(h), 0, L)
    IN SelectSeq(hs, CanFold)

C24_OnlyUnfoldableLeftOut ==
    ( /\ call.op = "GenerateRawHeaders"
      /\ call.limit > 0
      /\ \E i \in 1..Len(headers) : ~Foldable(HeaderLineOf(headers[i]), 0, call.limit) ) =>
        LET kept == FoldableOnly(headers, call.limit)
        IN /\ ret = GenerateRawHeadersOp(kept, call.limit)
           /\ kept = <<>> => ret = <<13, 10>>

\* the pieces of v split at every ',': none for the empty value, otherwise
\* the stretches between one comma (or the start) and the next (or the end)
Pieces(v) ==
    LET cuts == {0, Len(v) + 1} \cup {i \in 1..Len(v) : v[i] = 44}
    IN IF v = <<>> THEN <<>>
       ELSE [k \in 1..(Cardinality(cuts) - 1) |->
                SubSeq(v, Nth(cuts, k) + 1, Nth(cuts, k + 1) - 1)]

\* the pieces of the values of the entries of hs at the positions S, taken
\* by increasing position, as one flat list
RECURSIVE PiecesOf(_, _)
PiecesOf(hs, S) ==
    IF S = {} THEN <<>>
    ELSE PiecesOf(hs, S \ {Max(S)}) \o Pieces(hs[Max(S)].value)

CommaFree(values) ==
    \A k \in 1..Len(values) : values[k] # <<>> /\ \A i \in 1..Len(values[k]) : values[k][i] # 44

C26_LongTailIsError ==
    (call.op = "ParseRawMessage" /\ call.limit > 0) =>
        LET raw == call.rawMessage
            tooLong == Unterminated(raw) # <<>> /\ TooLong(Len(Unterminated(raw)), call.limit)
        IN /\ (BlankLine(raw) = 0 /\ tooLong) => ret.state = Error
           /\ ret.state = Incomplete => ~tooLong

\* C27: with L > 0, a buffer whose first line is a header line and whose
\* header block holds a continuation line that is too long for L, its CRLF
\* counted, gives Error.
C27_LongContinuationIsError ==
    (call.op = "ParseRawMessage" /\ call.limit > 0) =>
        LET raw == call.rawMessage
        IN ( /\ NumLines(raw) >= 2
             /\ HasNameAndColon(LineBody(raw, 1))
             /\ \E k \in 2..HeaderLines(raw) :
                    /\ ContinuationLine(LineBody(raw, k))
                    /\ TooLong(Len(LineBody(raw, k)), call.limit) ) =>
               ret.state = Error

\* how many lines beginning with SP or HT, of any length, follow line 1 of
\* raw without interruption
ContinuationCount(raw) ==
    Max({m \in 0..(NumLines(raw) - 1) :
            \A j \in 2..(m + 1) : ContinuationLine(LineBody(raw, j))})

\* C28: a well-formed header line followed by lines that begin with SP or HT,
\* whatever their length, and then the blank line gives Complete and one
\* entry whose value is the first line's value with every such line unfolded
\* into it; none of these lines is read as a header line or gives Error.
C28_EveryContinuationUnfolded ==
    LET raw == call.rawMessage
        m == ContinuationCount(raw)
    IN ( /\ call.op = "ParseRawMessage"
         /\ NumLines(raw) >= m + 2
         /\ WellFormedHeaderLine(LineBody(raw, 1))
         /\ LineBody(raw, m + 2) = <<>> ) =>
           /\ ret.state = Complete
           /\ Len(headers) = 1
           /\ headers[1].value = DropLeadingWsp(DropTrailingWsp(FoldedValue(raw, m)))

\* the lines into which the part of s from start on is folded with limit L:
\* the rest as it is when it fits, otherwise the bytes before the last
\* candidate, CRLF, and the lines of what follows the candidate; every part
\* after the first is prefixed with one SP
RECURSIVE FoldedLines(_, _, _)
FoldedLines(s, start, L) ==
    LET prefix == IF start = 0 THEN <<>> ELSE <<32>>
        break == Max(BreakCandidates(s, start, L))
    IN IF Len(s) - start <= L
       THEN prefix \o SubSeq(s, start + 1, Len(s))
       ELSE ((prefix \o SubSeq(s, start + 1, break)) \o <<13, 10>>)
                \o FoldedLines(s, break + 1, L)

RECURSIVE AllFoldedLines(_, _)
AllFoldedLines(hs, L) ==
    IF hs = <<>> THEN <<>>
    ELSE FoldedLines(HeaderLineOf(Head(hs)), 0, L) \o AllFoldedLines(Tail(hs), L)

\* C29: with L > 0 and a store whose header lines can all be folded to fit L,
\* GenerateRawHeaders breaks each line that does not fit at the last SP or HT
\* of the window, start to start + L - 2 for the first part and to
\* start + L - 3 for a later part, never at the first SP or HT of the line;
\* the break byte is dropped and the next part begins after it, prefixed with
\* one SP.  With L = 12, "X: This is even longer!" gives "X: This is",
\* " even", " longer!" and the empty line.
C29_BreakAtLastWhitespace ==
    ( /\ call.op = "GenerateRawHeaders"
      /\ call.limit > 0
      /\ \A i \in 1..Len(headers) : Foldable(HeaderLineOf(headers[i]), 0, call.limit) ) =>
        /\ ret = AllFoldedLines(headers, call.limit) \o <<13, 10>>
        /\ ( /\ call.limit = 12
             /\ GetAll(headers) = << <<(<<88>>), (<<84, 104, 105, 115, 32, 105, 115, 32, 101, 118,
                                   101, 110, 32, 108, 111, 110, 103, 101, 114, 33>>)>> >> ) =>
               /\ NumLines(ret) = 4
               /\ LineBody(ret, 1) = <<88, 58, 32, 84, 104, 105, 115, 32, 105, 115>>
               /\ LineBody(ret, 2) = <<32, 101, 118, 101, 110>>
               /\ LineBody(ret, 3) = <<32, 108, 111, 110, 103, 101, 114, 33>>
               /\ LineBody(ret, 4) = <<>>

\* the test's header "X: This is even longer!" folded into three lines with
\* L = 12
C29_Witness ==
    /\ call.op = "GenerateRawHeaders"
    /\ call.limit = 12
    /\ Len(headers) = 1
    /\ headers[1].name = <<88>>
    /\ Len(headers[1].value) = 20
    /\ headers[1].value[1] = 84
    /\ NumLines(ret) = 4
    /\ LineBody(ret, 3) = <<32, 108, 111, 110, 103, 101, 114, 33>>

\* C30: a ParseRawMessage call keeps the entries that were in the store, in
\* their order, as the first entries of the store, and keeps the line limit,
\* whatever it returns.  When the first line of the buffer is a well-formed
\* header line that is not too long and a complete line that does not begin
\* with SP or HT follows it, the header of the first line is appended even
\* if the call returns Error or Incomplete later.  When it returns Error the
\* body offset is 0.
C30_ParseOnlyAppends ==
    [][ (calls' = calls + 1 /\ call'.op = "ParseRawMessage") =>
          LET raw == call'.rawMessage
              n == Len(headers)
          IN /\ lineLengthLimit' = lineLengthLimit
             /\ Len(headers') >= n
             /\ SubSeq(headers', 1, n) = headers
             /\ ( /\ NumLines(raw) >= 2
                  /\ WellFormedHeaderLine(LineBody(raw, 1))
                  /\ ~TooLong(Len(LineBody(raw, 1)), lineLengthLimit)
                  /\ ~ContinuationLine(LineBody(raw, 2)) ) =>
                    /\ Len(headers') >= n + 1
                    /\ headers'[n + 1].name = LineName(LineBody(raw, 1))
             /\ ret'.state = Error => ret'.bodyOffset = 0 ]_vars

\* a parse with L = 5 of a store that held an entry: it appended the header
\* of the first line and then returned Error with body offset 0
C30_Witness ==
    /\ call.op = "ParseRawMessage"
    /\ call.limit = 5
    /\ lineLengthLimit = 5
    /\ before # <<>>
    /\ ret.state = Error
    /\ ret.bodyOffset = 0
    /\ Len(headers) = Len(before) + 1
    /\ SubSeq(headers, 1, Len(before)) = before

====
